---- MODULE Spec2Model ----
(***************************************************************************)
(* A model of src/src/index.ts: the PartialSegment and Segment objects and *)
(* the TSFragmenter writable stream that cuts an MPEG-TS stream into       *)
(* LL-HLS segments and partial segments.                                   *)
(*                                                                         *)
(* Bytes are modelled packet by packet: a Buffer is a sequence of TS       *)
(* packets and Buffer.concat is sequence concatenation.  The collaborators *)
(* of arib-mpeg2ts-parser (packet queue, section queue, PES queue, section *)
(* packetizer) are the environment: an input packet carries what the       *)
(* section queue or the PES queue yields once that packet is pushed.       *)
(*                                                                         *)
(* PTS values are held in units of 16 ticks of the 90 kHz clock, so that   *)
(* the 33-bit cycle (2^33 ticks = 2^29 units) fits the checker's integers. *)
(* The modelled inputs are therefore the PTS values divisible by 16.       *)
(***************************************************************************)
EXTENDS Integers, Sequences, FiniteSets, TLC

\* ---------------------------------------------------------------- bounds
\* window lengths 0..MaxLength are tried for options.length
MaxLength == 2
\* number of TS packets written to the stream
MaxPackets == 5
\* number of addSegmentCallback / addPartialCallback calls
MaxCallbacks == 2

\* ------------------------------------------------------ program constants
\* null of a PTS field (endPTS = null) and of a PID field
NoPTS == -1
NoPid == -1
\* 2 ** 33, in units of 16 ticks
PTS_CYCLE == 536870912
\* 90000 ticks per second, in units of 16 ticks
PTS_PER_SECOND == 5625
\* options?.partTarget ?? 1, in seconds
M3U8_Part_Target == 1
\* null of PAT_TargetSID, which is initialised to null and never assigned
NoSID == -1
PAT_TargetSID == NoSID
\* program_map_PID of the NIT entry of a PAT
NIT_PID == 16
\* stream_type of AVC video
AVC_VIDEO == 27
\* continuity counters are kept & 0x0F
CC_MODULUS == 16

\* PIDs of the input streams
PAT_PID == 0
PmtPidA == 256
PmtPidB == 512
VideoPid == 257
AudioPid == 258
PcrPid == 511

Min(a, b) == IF a < b THEN a ELSE b

\* ------------------------------------------------------------- sections
\* what a TSSectionQueue yields: a section, or nothing yet
NoSection == [table |-> "none"]

PATSection(crc, programs) ==
  [table |-> "PAT", CRC32 |-> crc, programs |-> programs]

PMTSection(crc, pcr, streams) ==
  [table |-> "PMT", CRC32 |-> crc, PCR_PID |-> pcr, streams |-> streams]

Program(n, pid) == [program_number |-> n, program_map_PID |-> pid]

Stream(t, pid) == [stream_type |-> t, elementary_PID |-> pid]

\* what a TSPESQueue yields: the PTS and the IDR scan of a PES, or nothing yet
NoPES == [complete |-> FALSE]

PES(pts, hasIDR) == [complete |-> TRUE, pts |-> pts, hasIDR |-> hasIDR]

\* a TS packet read from the input; live is whether M3U8_Initial_IDR_Detected
\* holds once the packet has been processed
InputPacket(pid, section, pes) ==
  [pid |-> pid, section |-> section, pes |-> pes]

Arrived(packet, live) ==
  [origin |-> "input", pid |-> packet.pid, section |-> packet.section,
   pes |-> packet.pes, live |-> live]

\* TSSectionPacketizer.packetize: a section of this size takes one packet
Packetize(section, pid, counter) ==
  << [origin |-> "packetize", pid |-> pid, section |-> section,
      continuity_counter |-> counter] >>

\* ------------------------------------------------------- PartialSegment
NewPartialSegment(beginPTS, hasIFrame) ==
  [beginPTS |-> beginPTS, endPTS |-> NoPTS, hasIFrame |-> hasIFrame,
   completed |-> <<>>, retains |-> <<>>, complete_callbacks |-> <<>>,
   appended |-> <<>>]
   \* appended: history of the packets handed to addPacket (not a field of
   \* the class)

\* addPacket that writes straight into the completed buffer
PartialAddPacketUnretained(ps, packet) ==
  [ps EXCEPT !.completed = Append(@, packet), !.appended = Append(@, packet)]

PartialAddPacket(ps, packet) ==
  [ps EXCEPT !.retains = Append(@, packet), !.appended = Append(@, packet)]

PartialAddCallback(ps, cb) ==
  [ps EXCEPT !.complete_callbacks = Append(@, cb)]

IsCompleted(ps) == ps.endPTS # NoPTS

RECURSIVE ConcatBuffers(_, _)
\* Buffer.concat of what getBuffer() returns for the partials from p on
ConcatBuffers(parts, p) ==
  IF p > Len(parts) THEN <<>>
  ELSE parts[p].completed \o ConcatBuffers(parts, p + 1)

\* what a callback sees of the object it is called on (cb.call(this)):
\* whether it is sealed, whether its partials are, and whether its buffer is
\* the concatenation of the buffers of its partials
Observe(obj) ==
  [fulfilled |-> IsCompleted(obj),
   parts_fulfilled |->
     IF "parts" \in DOMAIN obj
     THEN \A i \in 1..Len(obj.parts) : IsCompleted(obj.parts[i])
     ELSE IsCompleted(obj),
   concatenated |->
     IF "parts" \in DOMAIN obj
     THEN obj.completed = ConcatBuffers(obj.parts, 1)
     ELSE TRUE]

\* complete(), up to the callbacks: the object the callbacks are called on
CompleteFields(ps, endPTS) ==
  [ps EXCEPT !.endPTS = endPTS,
             !.completed = @ \o ps.retains,
             !.retains = <<>>]

\* forEach that calls the callbacks last registered first
InvokeAllReversed(cbs, obj) ==
  [i \in 1..Len(cbs) |->
     [cb |-> cbs[Len(cbs) + 1 - i], fulfilled |-> Observe(obj).fulfilled,
      parts_fulfilled |-> Observe(obj).parts_fulfilled,
      concatenated |-> Observe(obj).concatenated]]

\* complete_callbacks.forEach((cb) => cb.call(this))
InvokeAll(cbs, obj) ==
  [i \in 1..Len(cbs) |->
     [cb |-> cbs[i], fulfilled |-> Observe(obj).fulfilled,
      parts_fulfilled |-> Observe(obj).parts_fulfilled,
      concatenated |-> Observe(obj).concatenated]]

\* complete(endPTS): the object afterwards and the callback invocations made
PartialComplete(ps, endPTS) ==
  LET sealed == CompleteFields(ps, endPTS)
  IN [obj |-> [sealed EXCEPT !.complete_callbacks = <<>>],
      calls |-> InvokeAll(ps.complete_callbacks, sealed)]

GetBuffer(ps) == ps.completed

\* the elapsed time without the wraparound: endPTS - beginPTS
ElapsedUnitsSigned(beginPTS, endPTS) == endPTS - beginPTS

\* (endPTS - beginPTS + 2 ** 33) % 2 ** 33, in units of 16 ticks
ElapsedUnits(beginPTS, endPTS) == (endPTS - beginPTS + PTS_CYCLE) % PTS_CYCLE

\* getSeconds() / estimateSeconds() times 90000 / 16
EstimateUnits(ps, endPTS) == ElapsedUnits(ps.beginPTS, endPTS)

GetUnits(ps) == EstimateUnits(ps, ps.endPTS)

\* ---------------------------------------------------------------- Segment
SegmentNewPartial(seg, beginPTS, hasIFrame) ==
  [seg EXCEPT !.parts = Append(@, NewPartialSegment(beginPTS, hasIFrame))]

NewSegment(beginPTS, hasIFrame, now) ==
  SegmentNewPartial(
    [beginPTS |-> beginPTS, endPTS |-> NoPTS, hasIFrame |-> hasIFrame,
     completed |-> <<>>, retains |-> <<>>, complete_callbacks |-> <<>>,
     appended |-> <<>>, parts |-> <<>>, programDateTime |-> now],
    beginPTS, hasIFrame)

SegmentCompletePartial(seg, endPTS) ==
  IF Len(seg.parts) = 0
  THEN [obj |-> seg, calls |-> <<>>]
  ELSE LET r == PartialComplete(seg.parts[Len(seg.parts)], endPTS)
       IN [obj |-> [seg EXCEPT !.parts[Len(seg.parts)] = r.obj],
           calls |-> r.calls]

\* super.complete(endPTS); this.completePartial(endPTS)
SegmentComplete(seg, endPTS) ==
  LET own == PartialComplete(seg, endPTS)
      last == SegmentCompletePartial(own.obj, endPTS)
  IN [obj |-> last.obj, calls |-> own.calls \o last.calls]

SegmentAddPacket(seg, packet) ==
  LET own == PartialAddPacket(seg, packet)
  IN [own EXCEPT !.parts[Len(seg.parts)] = PartialAddPacket(@, packet)]

\* ----------------------------------------------------------- TSFragmenter
VARIABLES
  PAT_lastPAT, PAT_Continuous_Counter, PAT_TargetPMTPid,
  PMT_lastPMT, PMT_Continuous_Counter, PMT_VideoPid, PMT_PCRPid,
  Video_Packets,
  M3U8_Segments_Length,
  M3U8_Begin_Sequence_Number, M3U8_End_Sequence_Number, M3U8_Segments,
  M3U8_Initial_PAT_Detected, M3U8_Initial_PMT_Detected,
  M3U8_Initial_IDR_Detected,
  threw,        \* a TypeError left _write (the stream is then destroyed)
  \* history, not fields of the class:
  written,      \* number of packets written to the stream
  created,      \* number of Segment objects constructed
  called,       \* the callback invocations made, in order
  registered,   \* the add*Callback calls made, in order, with their results
  evicted,      \* the MSNs that were in range and then no longer were
  dropped,      \* M3U8_Add_Packet returned without appending its packet
  observed      \* the last read made since the last write, with its result

demuxVars ==
  << PAT_lastPAT, PAT_Continuous_Counter, PAT_TargetPMTPid,
     PMT_lastPMT, PMT_Continuous_Counter, PMT_VideoPid, PMT_PCRPid,
     Video_Packets, M3U8_Initial_PAT_Detected, M3U8_Initial_PMT_Detected,
     M3U8_Initial_IDR_Detected >>

windowVars ==
  << M3U8_Segments_Length, M3U8_Begin_Sequence_Number,
     M3U8_End_Sequence_Number, M3U8_Segments >>

vars ==
  << demuxVars, windowVars, threw, written, created, called, registered,
     evicted, dropped, observed >>

\* the part of the object that the M3U8_* methods read and write
This ==
  [Segments |-> M3U8_Segments,
   Begin |-> M3U8_Begin_Sequence_Number,
   End |-> M3U8_End_Sequence_Number,
   Length |-> M3U8_Segments_Length,
   PAT_Continuous_Counter |-> PAT_Continuous_Counter,
   PMT_Continuous_Counter |-> PMT_Continuous_Counter,
   created |-> created,
   calls |-> <<>>,
   dropped |-> FALSE,
   threw |-> FALSE]

\* M3U8_Segments[index], index counted from 0
SegmentAt(w, index) ==
  IF index >= 0 /\ index < Len(w.Segments)
  THEN w.Segments[index + 1]
  ELSE [undefined |-> TRUE]

IsUndefined(x) == "undefined" \in DOMAIN x

\* Segment.getPartial(index): this.parts[index]
SegmentGetPartial(seg, index) ==
  IF index >= 0 /\ index < Len(seg.parts)
  THEN seg.parts[index + 1]
  ELSE [undefined |-> TRUE]

TypeError(w) == [w EXCEPT !.threw = TRUE]

M3U8_Add_Packet(w, packet) ==
  LET size == w.End - w.Begin
  IN IF w.threw THEN w
     ELSE IF size <= 0 THEN [w EXCEPT !.dropped = TRUE]
     ELSE IF IsUndefined(SegmentAt(w, size - 1)) THEN TypeError(w)
     ELSE [w EXCEPT !.Segments[size] = SegmentAddPacket(@, packet)]

RECURSIVE AddPackets(_, _, _)
\* packets.forEach((packet) => this.M3U8_Add_Packet(packet)), from packet i on
AddPackets(w, packets, i) ==
  IF i > Len(packets) THEN w
  ELSE AddPackets(M3U8_Add_Packet(w, packets[i]), packets, i + 1)

M3U8_Add_PAT(w, PAT) ==
  LET packets == Packetize(PAT, PAT_PID, w.PAT_Continuous_Counter)
      counted == [w EXCEPT !.PAT_Continuous_Counter =
                              (@ + Len(packets)) % CC_MODULUS]
  IN AddPackets(counted, packets, 1)

\* pmtPid is this.PAT_TargetPMTPid; !pmtPid holds of null and of 0
M3U8_Add_PMT(w, PMT, pmtPid) ==
  IF pmtPid = NoPid \/ pmtPid = 0 THEN w
  ELSE LET packets == Packetize(PMT, pmtPid, w.PMT_Continuous_Counter)
           counted == [w EXCEPT !.PMT_Continuous_Counter =
                                   (@ + Len(packets)) % CC_MODULUS]
       IN AddPackets(counted, packets, 1)

M3U8_Get_Last_Partial(w) ==
  LET size == w.End - w.Begin
      lastSegment == SegmentAt(w, size - 1)
  IN IF size <= 0 THEN [undefined |-> TRUE]
     ELSE IF IsUndefined(lastSegment) THEN [undefined |-> TRUE]
     ELSE SegmentGetPartial(lastSegment, Len(lastSegment.parts) - 1)

\* M3U8_New_Partial without lastSegment.completePartial(beginPTS)
M3U8_New_Partial_Unsealed(w, beginPTS) ==
  LET size == w.End - w.Begin
      lastSegment == SegmentAt(w, size - 1)
  IN IF size <= 0 THEN w
     ELSE IF IsUndefined(lastSegment) THEN TypeError(w)
     ELSE [w EXCEPT !.Segments[size] =
                       SegmentNewPartial(lastSegment, beginPTS, FALSE)]

M3U8_New_Partial(w, beginPTS) ==
  LET size == w.End - w.Begin
      lastSegment == SegmentAt(w, size - 1)
      done == SegmentCompletePartial(lastSegment, beginPTS)
  IN IF size <= 0 THEN w
     ELSE IF IsUndefined(lastSegment) THEN TypeError(w)
     ELSE [w EXCEPT !.Segments[size] =
                       SegmentNewPartial(done.obj, beginPTS, FALSE),
                    !.calls = @ \o done.calls]

\* the first block of M3U8_New_Segment: complete the last segment
CompleteLastSegment(w, beginPTS) ==
  LET size == w.End - w.Begin
      lastSegment == SegmentAt(w, size - 1)
      done == SegmentComplete(lastSegment, beginPTS)
  IN IF size <= 0 THEN w
     ELSE IF IsUndefined(lastSegment) THEN TypeError(w)
     ELSE [w EXCEPT !.Segments[size] = done.obj,
                    !.calls = @ \o done.calls]

\* PushSegment without M3U8_End_Sequence_Number += 1
PushSegmentUncounted(w, beginPTS) ==
  [w EXCEPT !.Segments = Append(@, NewSegment(beginPTS, TRUE, w.created)),
            !.created = @ + 1]

\* PushSegment with new Segment(0, true)
PushSegmentAtZero(w, beginPTS) ==
  [w EXCEPT !.Segments = Append(@, NewSegment(0, TRUE, w.created)),
            !.End = @ + 1,
            !.created = @ + 1]

\* the second block: push a new Segment, stamped with the current time
PushSegment(w, beginPTS) ==
  [w EXCEPT !.Segments = Append(@, NewSegment(beginPTS, TRUE, w.created)),
            !.End = @ + 1,
            !.created = @ + 1]

\* EvictSegment with the test size >= this.M3U8_Segments_Length
EvictSegmentEarly(w) ==
  LET size == w.End - w.Begin
  IN IF size >= w.Length
     THEN [w EXCEPT !.Segments = IF Len(@) = 0 THEN @ ELSE Tail(@),
                    !.Begin = @ + 1]
     ELSE w

\* EvictSegment that restarts the numbering at the segment it keeps
EvictSegmentRenumbered(w) ==
  LET size == w.End - w.Begin
  IN IF size > w.Length
     THEN [w EXCEPT !.Segments = IF Len(@) = 0 THEN @ ELSE Tail(@),
                    !.Begin = 0,
                    !.End = w.End - w.Begin - 1]
     ELSE w

\* the third block: drop the oldest segment of a window that is too long
EvictSegment(w) ==
  LET size == w.End - w.Begin
  IN IF size > w.Length
     THEN [w EXCEPT !.Segments = IF Len(@) = 0 THEN @ ELSE Tail(@),
                    !.Begin = @ + 1]
     ELSE w

M3U8_New_Segment(w, beginPTS, PAT, PMT, pmtPid) ==
  IF PAT = NoSection \/ PMT = NoSection THEN w
  ELSE LET completedLast == CompleteLastSegment(w, beginPTS)
           pushed == PushSegment(completedLast, beginPTS)
           evictedOld == EvictSegment(pushed)
       IN IF completedLast.threw THEN completedLast
          ELSE M3U8_Add_PMT(M3U8_Add_PAT(evictedOld, PAT), PMT, pmtPid)

\* ------------------------------------------------------------- queries
\* inRangeSegment with the test this.M3U8_End_Sequence_Number < msn
inRangeSegmentInclusive(w, msn) ==
  IF msn < w.Begin THEN FALSE
  ELSE IF w.End < msn THEN FALSE
  ELSE TRUE

inRangeSegment(w, msn) ==
  IF msn < w.Begin THEN FALSE
  ELSE IF w.End <= msn THEN FALSE
  ELSE TRUE

\* a returned value, or a TypeError thrown to the caller
Returns(v) == [threw |-> FALSE, value |-> v]

Throws == [threw |-> TRUE]

Null == [null |-> TRUE]

IsNull(x) == "null" \in DOMAIN x

\* !segment, !partial: null or undefined
Missing(x) == IsNull(x) \/ IsUndefined(x)

M3U8_Get_Segment(w, msn) ==
  IF ~inRangeSegment(w, msn) THEN Null
  ELSE SegmentAt(w, msn - w.Begin)

inRangePartial(w, msn, part) ==
  LET segment == SegmentAt(w, msn - w.Begin)
  IN IF ~inRangeSegment(w, msn) THEN Returns(FALSE)
     ELSE IF IsUndefined(segment) THEN Throws
     ELSE IF IsUndefined(SegmentGetPartial(segment, part)) THEN Returns(FALSE)
     ELSE Returns(TRUE)

\* a partial, Null, or Throws
M3U8_Get_Partial(w, msn, part) ==
  LET inRange == inRangePartial(w, msn, part)
      segment == SegmentAt(w, msn - w.Begin)
  IN IF inRange.threw THEN Throws
     ELSE IF ~inRange.value THEN Null
     ELSE IF IsUndefined(segment) THEN Throws
     ELSE IF IsUndefined(SegmentGetPartial(segment, part)) THEN Null
     ELSE SegmentGetPartial(segment, part)

isFulfilledSegment(w, msn) ==
  LET segment == M3U8_Get_Segment(w, msn)
  IN IF Missing(segment) THEN Returns(TRUE)
     ELSE Returns(IsCompleted(segment))

getSegment(w, msn) ==
  LET segment == M3U8_Get_Segment(w, msn)
  IN IF Missing(segment) THEN Returns(<<>>)
     ELSE Returns(GetBuffer(segment))

isFulfilledPartial(w, msn, part) ==
  LET partial == M3U8_Get_Partial(w, msn, part)
  IN IF partial = Throws THEN Throws
     ELSE IF Missing(partial) THEN Returns(TRUE)
     ELSE Returns(IsCompleted(partial))

getPartial(w, msn, part) ==
  LET partial == M3U8_Get_Partial(w, msn, part)
  IN IF partial = Throws THEN Throws
     ELSE IF Missing(partial) THEN Returns(<<>>)
     ELSE Returns(GetBuffer(partial))

\* ---------------------------------------------------------- getManifest
\* toFixed(3) of units / PTS_PER_SECOND seconds, in thousandths: the nearest
\* multiple of 45 / 8 units (a multiple of 16 ticks is never half way)
ToFixed3(units) == 8 * (units \div 45) + ((16 * (units % 45) + 45) \div 90)

\* the URI of a line: path?msn=<msn>, or path?msn=<msn>&<key>=<part>
SegmentURI(msn) == [path |-> "segment", msn |-> msn]

PartURI(msn, key, part) ==
  [path |-> "part", msn |-> msn, key |-> key, part |-> part]

RECURSIVE PartLines(_, _, _, _)
\* the lines of the partials of a segment from index p on, and the EXTINF
\* sum they leave, in thousandths
PartLines(segment, msn, p, extinf) ==
  IF p >= Len(segment.parts) THEN [lines |-> <<>>, extinf |-> extinf]
  ELSE LET part == SegmentGetPartial(segment, p)
           hint == [tag |-> "EXT-X-PRELOAD-HINT",
                    uri |-> PartURI(msn, "part.ts", p),
                    independent |-> part.hasIFrame]
           line == [tag |-> "EXT-X-PART",
                    duration |-> ToFixed3(GetUnits(part)),
                    uri |-> PartURI(msn, "part", p),
                    independent |-> part.hasIFrame]
           rest == PartLines(segment, msn, p + 1,
                             IF IsCompleted(part)
                             THEN extinf + ToFixed3(GetUnits(part))
                             ELSE extinf)
       IN [lines |-> << IF IsCompleted(part) THEN line ELSE hint >>
                       \o rest.lines,
           extinf |-> rest.extinf]

\* SegmentLines without the test segment.isCompleted()
SegmentLinesUntested(w, msn) ==
  LET segment == SegmentAt(w, msn - w.Begin)
      parts == PartLines(segment, msn, 0, 0)
  IN << [tag |-> "EXT-X-PROGRAM-DATE-TIME", msn |-> msn,
         value |-> segment.programDateTime] >>
     \o parts.lines
     \o << [tag |-> "EXTINF", msn |-> msn, duration |-> parts.extinf],
           [tag |-> "URI", uri |-> SegmentURI(msn)] >>

\* the lines of one pass of the loop over the media sequence numbers
SegmentLines(w, msn) ==
  LET segment == SegmentAt(w, msn - w.Begin)
      parts == PartLines(segment, msn, 0, 0)
  IN << [tag |-> "EXT-X-PROGRAM-DATE-TIME", msn |-> msn,
         value |-> segment.programDateTime] >>
     \o parts.lines
     \o IF IsCompleted(segment)
        THEN << [tag |-> "EXTINF", msn |-> msn, duration |-> parts.extinf],
                [tag |-> "URI", uri |-> SegmentURI(msn)] >>
        ELSE <<>>

RECURSIVE AllSegmentLines(_, _)
AllSegmentLines(w, msn) ==
  IF msn >= w.End THEN <<>>
  ELSE SegmentLines(w, msn) \o AllSegmentLines(w, msn + 1)

RECURSIVE MaxUnits(_, _, _)
\* the loop of getTargetDuration: the longest completed segment, in units,
\* starting from max = 1 second
MaxUnits(w, msn, max) ==
  IF msn >= w.End THEN max
  ELSE LET segment == SegmentAt(w, msn - w.Begin)
           units == IF IsCompleted(segment) THEN GetUnits(segment) ELSE 0
       IN MaxUnits(w, msn + 1, IF units > max THEN units ELSE max)

\* getTargetDuration with Math.floor(max)
getTargetDurationFloor(w) ==
  MaxUnits(w, w.Begin, PTS_PER_SECOND) \div PTS_PER_SECOND

\* Math.ceil(max), in seconds
getTargetDuration(w) ==
  (MaxUnits(w, w.Begin, PTS_PER_SECOND) + PTS_PER_SECOND - 1)
    \div PTS_PER_SECOND

\* the playlist, line by line; durations are in thousandths of a second
getManifest(w) ==
  << [tag |-> "EXTM3U"],
     [tag |-> "EXT-X-VERSION", value |-> 6],
     [tag |-> "EXT-X-TARGETDURATION", value |-> getTargetDuration(w)],
     [tag |-> "EXT-X-PART-INF", part_target |-> 1000 * M3U8_Part_Target],
     [tag |-> "EXT-X-SERVER-CONTROL", can_block_reload |-> TRUE,
      part_hold_back |-> 1000 * M3U8_Part_Target * 3],
     [tag |-> "EXT-X-MEDIA-SEQUENCE", value |-> w.Begin] >>
  \o AllSegmentLines(w, w.Begin)

\* ------------------------------------------------------------ the input
\* the sections the PAT section queue yields
PAT_A == PATSection(0, << Program(0, NIT_PID), Program(1, PmtPidA) >>)

PAT_B == PATSection(0, << Program(2, PmtPidB) >>)

PAT_NoProgram == PATSection(0, << Program(0, NIT_PID) >>)

PAT_BadCRC == PATSection(1, << Program(2, PmtPidB) >>)

\* the sections the PMT section queue yields
PMT_Video ==
  PMTSection(0, PcrPid, << Stream(15, AudioPid), Stream(AVC_VIDEO, VideoPid) >>)

PMT_NoVideo == PMTSection(0, PcrPid, << Stream(15, AudioPid) >>)

PMT_BadCRC == PMTSection(1, VideoPid, << Stream(AVC_VIDEO, AudioPid) >>)

\* the PTS values of the video PESs: a part target apart (0 and 5000, or
\* across the wrap PTS_CYCLE - 5000 and 0), and a few ticks apart (5009)
PTSValues == {0, 5000, 5009, PTS_CYCLE - 5000}

InputPackets ==
  { InputPacket(PAT_PID, s, NoPES) :
      s \in {PAT_A, PAT_B, PAT_NoProgram, PAT_BadCRC, NoSection} }
  \cup { InputPacket(PmtPidA, s, NoPES) :
           s \in {PMT_Video, PMT_NoVideo, PMT_BadCRC} }
  \cup { InputPacket(PmtPidB, PMT_Video, NoPES) }
  \cup { InputPacket(VideoPid, NoSection, NoPES) }
  \cup { InputPacket(VideoPid, NoSection, PES(pts, idr)) :
           pts \in PTSValues, idr \in BOOLEAN }
  \cup { InputPacket(PcrPid, NoSection, NoPES),
         InputPacket(AudioPid, NoSection, NoPES) }

\* ------------------------------------------------------------- _write
RECURSIVE ScanPAT(_, _, _)
\* the loop over the program entries of a PAT, from entry i on
ScanPAT(programs, i, target) ==
  IF i > Len(programs) THEN target
  ELSE IF programs[i].program_map_PID = NIT_PID
       THEN ScanPAT(programs, i + 1, target)
  ELSE IF PAT_TargetSID = programs[i].program_number
       THEN ScanPAT(programs, i + 1, programs[i].program_map_PID)
  ELSE IF PAT_TargetSID = NoSID /\ target = NoPid
       THEN ScanPAT(programs, i + 1, programs[i].program_map_PID)
  ELSE ScanPAT(programs, i + 1, target)

RECURSIVE ScanPMT(_, _, _)
\* the loop over the stream entries of a PMT, from entry i on
ScanPMT(streams, i, video) ==
  IF i > Len(streams) THEN video
  ELSE IF video = NoPid /\ streams[i].stream_type = AVC_VIDEO
       THEN ScanPMT(streams, i + 1, streams[i].elementary_PID)
  ELSE ScanPMT(streams, i + 1, video)

\* the part window with the test time < M3U8_Part_Target
InPartWindowExclusive(units) ==
  /\ units < M3U8_Part_Target * PTS_PER_SECOND
  /\ (85 * M3U8_Part_Target * PTS_PER_SECOND) \div 100 < units

\* M3U8_Part_Target * 0.85 < time && time <= M3U8_Part_Target, for a time of
\* units / PTS_PER_SECOND seconds: 85 * target < 100 * time, with the division
\* done on the side of the constant
InPartWindow(units) ==
  /\ units <= M3U8_Part_Target * PTS_PER_SECOND
  /\ (85 * M3U8_Part_Target * PTS_PER_SECOND) \div 100 < units

\* the MSNs as the callers see them, with one below and one above the window
MSNs == (0 - 1)..(MaxPackets + 1)

\* no read was made since the last write
NoRead == [op |-> "none"]

\* what the M3U8_* methods leave behind
Store(w) ==
  /\ M3U8_Segments' = w.Segments
  /\ M3U8_Begin_Sequence_Number' = w.Begin
  /\ M3U8_End_Sequence_Number' = w.End
  /\ PAT_Continuous_Counter' = w.PAT_Continuous_Counter
  /\ PMT_Continuous_Counter' = w.PMT_Continuous_Counter
  /\ created' = w.created
  /\ called' = called \o w.calls
  /\ threw' = w.threw
  /\ dropped' = (dropped \/ w.dropped)
  /\ evicted' = evicted \cup
       { msn \in MSNs : inRangeSegment(This, msn) /\ ~inRangeSegment(w, msn) }
  /\ UNCHANGED M3U8_Segments_Length

\* Init with the video PID bound from the start instead of null
InitVideoBound ==
  /\ PAT_lastPAT = NoSection
  /\ PAT_Continuous_Counter = 0
  /\ PAT_TargetPMTPid = NoPid
  /\ PMT_lastPMT = NoSection
  /\ PMT_Continuous_Counter = 0
  /\ PMT_VideoPid = VideoPid
  /\ PMT_PCRPid = NoPid
  /\ Video_Packets = <<>>
  /\ M3U8_Segments_Length \in 0..MaxLength
  /\ M3U8_Begin_Sequence_Number = 0
  /\ M3U8_End_Sequence_Number = 0
  /\ M3U8_Segments = <<>>
  /\ M3U8_Initial_PAT_Detected = FALSE
  /\ M3U8_Initial_PMT_Detected = FALSE
  /\ M3U8_Initial_IDR_Detected = FALSE
  /\ threw = FALSE
  /\ written = 0
  /\ created = 0
  /\ called = <<>>
  /\ registered = <<>>
  /\ evicted = {}
  /\ dropped = FALSE
  /\ observed = NoRead

Init ==
  /\ PAT_lastPAT = NoSection
  /\ PAT_Continuous_Counter = 0
  /\ PAT_TargetPMTPid = NoPid
  /\ PMT_lastPMT = NoSection
  /\ PMT_Continuous_Counter = 0
  /\ PMT_VideoPid = NoPid
  /\ PMT_PCRPid = NoPid
  /\ Video_Packets = <<>>
  /\ M3U8_Segments_Length \in 0..MaxLength
  /\ M3U8_Begin_Sequence_Number = 0
  /\ M3U8_End_Sequence_Number = 0
  /\ M3U8_Segments = <<>>
  /\ M3U8_Initial_PAT_Detected = FALSE
  /\ M3U8_Initial_PMT_Detected = FALSE
  /\ M3U8_Initial_IDR_Detected = FALSE
  /\ threw = FALSE
  /\ written = 0
  /\ created = 0
  /\ called = <<>>
  /\ registered = <<>>
  /\ evicted = {}
  /\ dropped = FALSE
  /\ observed = NoRead

\* a packet can be written while the stream is not destroyed
CanWrite ==
  /\ ~threw
  /\ written < MaxPackets

\* _write of a packet with pid 0x00
WritePAT(packet) ==
  /\ CanWrite
  /\ packet.pid = PAT_PID
  /\ written' = written + 1
  /\ observed' = NoRead
  /\ UNCHANGED << PMT_lastPMT, PMT_VideoPid, PMT_PCRPid, Video_Packets,
                  M3U8_Initial_PMT_Detected, M3U8_Initial_IDR_Detected,
                  registered >>
  /\ IF packet.section = NoSection \/ packet.section.CRC32 # 0
     THEN UNCHANGED << PAT_lastPAT, PAT_TargetPMTPid, PAT_Continuous_Counter,
                       PMT_Continuous_Counter, M3U8_Initial_PAT_Detected,
                       windowVars, threw, created, called, evicted,
                       dropped >>
     ELSE /\ PAT_lastPAT' = packet.section
          /\ PAT_TargetPMTPid' = ScanPAT(packet.section.programs, 1, NoPid)
          /\ M3U8_Initial_PAT_Detected' = TRUE
          /\ Store(IF M3U8_Initial_IDR_Detected
                   THEN M3U8_Add_PAT(This, packet.section)
                   ELSE This)

\* _write of a packet of the bound PMT PID
WritePMT(packet) ==
  /\ CanWrite
  /\ packet.pid # PAT_PID
  /\ packet.pid = PAT_TargetPMTPid
  /\ written' = written + 1
  /\ observed' = NoRead
  /\ UNCHANGED << PAT_lastPAT, PAT_TargetPMTPid, Video_Packets,
                  M3U8_Initial_PAT_Detected, M3U8_Initial_IDR_Detected,
                  registered >>
  /\ IF packet.section = NoSection \/ packet.section.CRC32 # 0
     THEN UNCHANGED << PMT_lastPMT, PMT_VideoPid, PMT_PCRPid,
                       PAT_Continuous_Counter, PMT_Continuous_Counter,
                       M3U8_Initial_PMT_Detected,
                       windowVars, threw, created, called, evicted,
                       dropped >>
     ELSE /\ PMT_lastPMT' = packet.section
          /\ PMT_PCRPid' = packet.section.PCR_PID
          /\ PMT_VideoPid' = ScanPMT(packet.section.streams, 1, NoPid)
          /\ M3U8_Initial_PMT_Detected' = TRUE
          /\ Store(IF M3U8_Initial_IDR_Detected
                   THEN M3U8_Add_PMT(This, packet.section, PAT_TargetPMTPid)
                   ELSE This)

\* the body of the loop over the PESs, for a PES with this PTS and IDR scan
VideoPES(w, pts, hasIDR, packets) ==
  LET segmented == IF hasIDR
                   THEN M3U8_New_Segment(w, pts, PAT_lastPAT, PMT_lastPMT,
                                         PAT_TargetPMTPid)
                   ELSE w
      part == M3U8_Get_Last_Partial(segmented)
      cut == IF ~hasIDR /\ ~IsUndefined(part)
                /\ InPartWindow(EstimateUnits(part, pts))
             THEN M3U8_New_Partial(segmented, pts)
             ELSE segmented
  IN IF hasIDR \/ M3U8_Initial_IDR_Detected
     THEN AddPackets(cut, packets, 1)
     ELSE w

\* _write of a packet of the bound video PID
WriteVideo(packet) ==
  /\ CanWrite
  /\ packet.pid # PAT_PID
  /\ packet.pid # PAT_TargetPMTPid
  /\ packet.pid = PMT_VideoPid
  /\ written' = written + 1
  /\ observed' = NoRead
  /\ UNCHANGED << PAT_lastPAT, PAT_TargetPMTPid, PMT_lastPMT, PMT_VideoPid,
                  PMT_PCRPid, M3U8_Initial_PAT_Detected,
                  M3U8_Initial_PMT_Detected, registered >>
  /\ LET live == M3U8_Initial_IDR_Detected
                   \/ (packet.pes.complete /\ packet.pes.hasIDR)
         packets == Append(Video_Packets, Arrived(packet, live))
     IN /\ M3U8_Initial_IDR_Detected' = live
        /\ IF packet.pes.complete
           THEN /\ Store(VideoPES(This, packet.pes.pts, packet.pes.hasIDR,
                                  packets))
                /\ Video_Packets' = IF live THEN <<>> ELSE packets
           ELSE /\ Video_Packets' = packets
                /\ UNCHANGED << PAT_Continuous_Counter, PMT_Continuous_Counter,
                                windowVars, threw, created, called, evicted,
                       dropped >>

\* what the PCR branch and the last branch of _write both do
AppendIfLive(packet) ==
  /\ written' = written + 1
  /\ observed' = NoRead
  /\ UNCHANGED << PAT_lastPAT, PAT_TargetPMTPid, PMT_lastPMT, PMT_VideoPid,
                  PMT_PCRPid, Video_Packets, M3U8_Initial_PAT_Detected,
                  M3U8_Initial_PMT_Detected, M3U8_Initial_IDR_Detected,
                  registered >>
  /\ Store(IF M3U8_Initial_IDR_Detected
           THEN M3U8_Add_Packet(This,
                                Arrived(packet, M3U8_Initial_IDR_Detected))
           ELSE This)

\* _write of a packet of the bound PCR PID
WritePCR(packet) ==
  /\ CanWrite
  /\ packet.pid # PAT_PID
  /\ packet.pid # PAT_TargetPMTPid
  /\ packet.pid # PMT_VideoPid
  /\ packet.pid = PMT_PCRPid
  /\ AppendIfLive(packet)

\* _write of a packet of any other PID
WriteOther(packet) ==
  /\ CanWrite
  /\ packet.pid # PAT_PID
  /\ packet.pid # PAT_TargetPMTPid
  /\ packet.pid # PMT_VideoPid
  /\ packet.pid # PMT_PCRPid
  /\ AppendIfLive(packet)

\* ------------------------------------------------- callback registration
\* addSegmentCallback(msn, cb): what it returns and the segments it leaves
SegmentCallbackCall(w, msn, cb) ==
  LET segment == M3U8_Get_Segment(w, msn)
  IN IF Missing(segment)
     THEN [returned |-> FALSE, Segments |-> w.Segments]
     ELSE [returned |-> TRUE,
           Segments |-> [w.Segments EXCEPT ![msn - w.Begin + 1] =
                                              PartialAddCallback(@, cb)]]

\* addPartialCallback(msn, part, cb): the same, or Throws
PartialCallbackCall(w, msn, part, cb) ==
  LET partial == M3U8_Get_Partial(w, msn, part)
  IN IF partial = Throws THEN Throws
     ELSE IF Missing(partial)
     THEN [returned |-> FALSE, Segments |-> w.Segments]
     ELSE [returned |-> TRUE,
           Segments |-> [w.Segments EXCEPT
                           ![msn - w.Begin + 1].parts[part + 1] =
                              PartialAddCallback(@, cb)]]

\* the callbacks are numbered in the order of the calls that store them
NextCallback == Len(registered) + 1

\* a call that returned true: its target and whether the target was open
Registration(op, msn, part, target) ==
  [op |-> op, msn |-> msn, part |-> part, open |-> ~IsCompleted(target)]

\* a call of add*Callback with this outcome; a call that returns false
\* leaves nothing behind
Register(call, registration) ==
  /\ ~threw
  /\ Len(registered) < MaxCallbacks
  /\ call # Throws
  /\ IF call.returned
     THEN /\ registered' = Append(registered, registration)
          /\ M3U8_Segments' = call.Segments
     ELSE UNCHANGED << registered, M3U8_Segments >>
  /\ UNCHANGED << demuxVars, M3U8_Segments_Length,
                  M3U8_Begin_Sequence_Number, M3U8_End_Sequence_Number,
                  threw, written, created, called, evicted, dropped,
                  observed >>

addSegmentCallback(msn) ==
  Register(SegmentCallbackCall(This, msn, NextCallback),
           Registration("segment", msn, 0 - 1, M3U8_Get_Segment(This, msn)))

addPartialCallback(msn, part) ==
  Register(PartialCallbackCall(This, msn, part, NextCallback),
           Registration("partial", msn, part,
                        M3U8_Get_Partial(This, msn, part)))

\* the MSNs and part indexes the callers ask for: the window, one MSN below
\* and one above it, and one part index beyond the longest segment
AskedMSNs == (M3U8_Begin_Sequence_Number - 1)..M3U8_End_Sequence_Number

AskedParts ==
  0..( CHOOSE n \in 0..MaxPackets :
         /\ \A i \in 1..Len(M3U8_Segments) : Len(M3U8_Segments[i].parts) <= n
         /\ \/ n = 0
            \/ \E i \in 1..Len(M3U8_Segments) :
                 Len(M3U8_Segments[i].parts) = n )

\* the writes of the packets of a set of input packets
Ingest(packets) ==
  \/ \E packet \in packets : WritePAT(packet)
  \/ \E packet \in packets : WritePMT(packet)
  \/ \E packet \in packets : WriteVideo(packet)
  \/ \E packet \in packets : WritePCR(packet)
  \/ \E packet \in packets : WriteOther(packet)

\* the stream is written to and nobody registers a callback
Next == Ingest(InputPackets)

Spec == Init /\ [][Next]_vars

\* a stream of one program, whose PTS values advance or repeat
CallbackInputs ==
  { InputPacket(PAT_PID, PAT_A, NoPES),
    InputPacket(PmtPidA, PMT_Video, NoPES),
    InputPacket(PcrPid, NoSection, NoPES),
    InputPacket(AudioPid, NoSection, NoPES) }
  \cup { InputPacket(VideoPid, NoSection, PES(pts, idr)) :
           pts \in {0, 5000}, idr \in BOOLEAN }

\* the stream is written to while callers register callbacks
NextCallbacks ==
  \/ Ingest(CallbackInputs)
  \/ \E msn \in AskedMSNs : addSegmentCallback(msn)
  \/ \E msn \in AskedMSNs, part \in AskedParts : addPartialCallback(msn, part)

SpecCallbacks == Init /\ [][NextCallbacks]_vars

\* the PTS values around the two ends of the part window: 0.85 of a part
\* target is 4781.25 units and a part target is 5625 units; and a PTS ahead
\* of the wrap
CutPTSValues == {0, 4781, 4782, 5625, 5626, PTS_CYCLE - 5000}

\* a stream of one program whose access units take one or two packets
CutInputs ==
  { InputPacket(PAT_PID, PAT_A, NoPES),
    InputPacket(PmtPidA, PMT_Video, NoPES),
    InputPacket(PcrPid, NoSection, NoPES),
    InputPacket(AudioPid, NoSection, NoPES),
    InputPacket(VideoPid, NoSection, NoPES) }
  \cup { InputPacket(VideoPid, NoSection, PES(pts, idr)) :
           pts \in CutPTSValues, idr \in BOOLEAN }

NextCuts == Ingest(CutInputs)

SpecCuts == Init /\ [][NextCuts]_vars

\* ------------------------------------------------------------ the reads
\* a call of a public read method: its arguments and what it returned
Read(op, msn, part, result) ==
  [op |-> op, msn |-> msn, part |-> part, result |-> result]

\* what a read method leaves behind: none of them assigns to a field
Returned(read) ==
  /\ observed' = read
  /\ UNCHANGED << demuxVars, windowVars, threw, written, created, called,
                  registered, evicted, dropped >>

\* the result of a read method on the object w
ReadResult(w, op, msn, part) ==
  CASE op = "getManifest" -> getManifest(w)
    [] op = "inRangeSegment" -> Returns(inRangeSegment(w, msn))
    [] op = "isFulfilledSegment" -> isFulfilledSegment(w, msn)
    [] op = "getSegment" -> getSegment(w, msn)
    [] op = "inRangePartial" -> inRangePartial(w, msn, part)
    [] op = "isFulfilledPartial" -> isFulfilledPartial(w, msn, part)
    [] op = "getPartial" -> getPartial(w, msn, part)

ReadManifest ==
  Returned(Read("getManifest", 0, 0, ReadResult(This, "getManifest", 0, 0)))

ReadSegment(op, msn) ==
  Returned(Read(op, msn, 0, ReadResult(This, op, msn, 0)))

\* getSegment that moves the pending packets of the segment into its buffer
ReadGetSegmentFlushing(msn) ==
  /\ observed' = Read("getSegment", msn, 0, getSegment(This, msn))
  /\ M3U8_Segments' =
       [i \in 1..Len(M3U8_Segments) |->
          IF i = msn - M3U8_Begin_Sequence_Number + 1
          THEN [M3U8_Segments[i] EXCEPT !.completed = @ \o M3U8_Segments[i].retains,
                                        !.retains = <<>>]
          ELSE M3U8_Segments[i]]
  /\ UNCHANGED << demuxVars, M3U8_Segments_Length,
                  M3U8_Begin_Sequence_Number, M3U8_End_Sequence_Number,
                  threw, written, created, called, registered, evicted,
                  dropped >>

ReadGetSegment(msn) == ReadSegment("getSegment", msn)

ReadPartial(op, msn, part) ==
  Returned(Read(op, msn, part, ReadResult(This, op, msn, part)))

\* the stream is written to while callers read the window
NextReads ==
  \/ Ingest(CallbackInputs)
  \/ ReadManifest
  \/ \E msn \in AskedMSNs : ReadSegment("inRangeSegment", msn)
  \/ \E msn \in AskedMSNs : ReadSegment("isFulfilledSegment", msn)
  \/ \E msn \in AskedMSNs : ReadGetSegment(msn)
  \/ \E msn \in AskedMSNs, part \in AskedParts :
       ReadPartial("inRangePartial", msn, part)
  \/ \E msn \in AskedMSNs, part \in AskedParts :
       ReadPartial("isFulfilledPartial", msn, part)
  \/ \E msn \in AskedMSNs, part \in AskedParts :
       ReadPartial("getPartial", msn, part)

SpecReads == Init /\ [][NextReads]_vars

\* ------------------------------------------------------------------ C1
InWindow == 1..Len(M3U8_Segments)

\* C1: with a window length N >= 1, after K segment-creating IDR access
\* units the window holds min(K, N) segments, end-MSN is K and, for K > N,
\* begin-MSN is K - N; always 0 <= end-MSN - begin-MSN <= N, and the number
\* of stored segments is end-MSN - begin-MSN.
C1_WindowAfterKSegments ==
  /\ 0 <= M3U8_End_Sequence_Number - M3U8_Begin_Sequence_Number
  /\ M3U8_End_Sequence_Number - M3U8_Begin_Sequence_Number
       <= M3U8_Segments_Length
  /\ Len(M3U8_Segments)
       = M3U8_End_Sequence_Number - M3U8_Begin_Sequence_Number
  /\ M3U8_Segments_Length >= 1 =>
       /\ Len(M3U8_Segments) = Min(created, M3U8_Segments_Length)
       /\ M3U8_End_Sequence_Number = created
       /\ created > M3U8_Segments_Length =>
            M3U8_Begin_Sequence_Number = created - M3U8_Segments_Length

\* more segments were created than the window holds, and one was evicted
C1_Witness ==
  /\ M3U8_Segments_Length >= 2
  /\ created > M3U8_Segments_Length
  /\ Len(M3U8_Segments) = M3U8_Segments_Length
  /\ M3U8_Begin_Sequence_Number = created - M3U8_Segments_Length

\* ------------------------------------------------------------------ C2
\* the object behind an MSN: its creation stamp and what it was built with
Identity(segment) ==
  << segment.programDateTime, segment.beginPTS, segment.hasIFrame >>

\* C2: begin-MSN and end-MSN never decrease; an MSN that was in range and
\* then was not is never in range again; an MSN addresses the same segment
\* for as long as it stays in range.
C2_MSNsNeverReused ==
  /\ [](\A msn \in evicted : ~inRangeSegment(This, msn))
  /\ [][ /\ M3U8_Begin_Sequence_Number' >= M3U8_Begin_Sequence_Number
         /\ M3U8_End_Sequence_Number' >= M3U8_End_Sequence_Number
         /\ \A msn \in MSNs :
              inRangeSegment(This, msn) /\ inRangeSegment(This', msn) =>
                /\ ~IsUndefined(M3U8_Get_Segment(This', msn))
                /\ Identity(M3U8_Get_Segment(This', msn))
                     = Identity(M3U8_Get_Segment(This, msn)) ]_vars

\* an MSN has left the window while a later one stayed in it
C2_Witness ==
  /\ evicted # {}
  /\ M3U8_End_Sequence_Number - M3U8_Begin_Sequence_Number >= 2
  /\ IsCompleted(M3U8_Segments[1])

\* ------------------------------------------------------------------ C6
IsPacketized(packet, table) ==
  /\ packet.origin = "packetize"
  /\ packet.section.table = table

\* C6: every segment in the window has as its first packets the
\* re-serialized PAT followed by the re-serialized PMT.
C6_SegmentsStartWithPATAndPMT ==
  \A i \in InWindow :
    /\ Len(M3U8_Segments[i].appended) >= 2
    /\ IsPacketized(M3U8_Segments[i].appended[1], "PAT")
    /\ IsPacketized(M3U8_Segments[i].appended[2], "PMT")

\* ------------------------------------------------------------------ C7
\* the buffers of the segments and partials of the window, pending or not
AllBuffers ==
  UNION { { M3U8_Segments[i].completed, M3U8_Segments[i].retains }
          \cup UNION { { M3U8_Segments[i].parts[p].completed,
                         M3U8_Segments[i].parts[p].retains } :
                       p \in 1..Len(M3U8_Segments[i].parts) } :
          i \in InWindow }

\* a packet read from the input while the first IDR was awaited
BeforeLive(packet) ==
  /\ packet.origin = "input"
  /\ ~packet.live

\* C7: no packet that arrived before Live is in a segment or partial
\* buffer; in particular none of a non-IDR access unit received while the
\* first IDR was awaited, that is, none that arrived ahead of a packet
\* which completed a non-IDR PES before Live.
C7_NothingFromBeforeLive ==
  \A buffer \in AllBuffers :
    \A i \in 1..Len(buffer), j \in 1..Len(buffer) :
      ~ /\ i < j
        /\ BeforeLive(buffer[i])
        /\ BeforeLive(buffer[j])
        /\ buffer[j].pes.complete
        /\ ~buffer[j].pes.hasIDR

\* ------------------------------------------------------------------ C8
PartIndexes == 0..MaxPackets

\* an open object shows no bytes; a completed one shows the packets handed
\* to its addPacket, in order
BufferAsAppended(x) ==
  IF IsCompleted(x) THEN GetBuffer(x) = x.appended ELSE GetBuffer(x) = <<>>

\* the partial at (msn, part) of a state, as M3U8_Get_Partial finds it
Found(w, msn, part) == ~Missing(M3U8_Get_Partial(w, msn, part))

\* C8: getPartial returns no bytes while the partial is open; once it is
\* sealed its buffer is the ordered concatenation of exactly the packets
\* appended while it was open, and its buffer and end PTS never change
\* again; the same holds of the segments.
C8_SealedOnceAndForAll ==
  /\ [](\A i \in InWindow :
          /\ BufferAsAppended(M3U8_Segments[i])
          /\ \A p \in 1..Len(M3U8_Segments[i].parts) :
               /\ BufferAsAppended(M3U8_Segments[i].parts[p])
               /\ getPartial(This, M3U8_Begin_Sequence_Number + i - 1, p - 1)
                    = Returns(IF IsCompleted(M3U8_Segments[i].parts[p])
                              THEN M3U8_Segments[i].parts[p].appended
                              ELSE <<>>))
  /\ [][ /\ \A msn \in MSNs, part \in PartIndexes :
              ( /\ Found(This, msn, part)
                /\ Found(This', msn, part)
                /\ IsCompleted(M3U8_Get_Partial(This, msn, part)) ) =>
                /\ M3U8_Get_Partial(This', msn, part).endPTS
                     = M3U8_Get_Partial(This, msn, part).endPTS
                /\ getPartial(This', msn, part) = getPartial(This, msn, part)
         /\ \A msn \in MSNs :
              ( /\ inRangeSegment(This, msn)
                /\ inRangeSegment(This', msn)
                /\ IsCompleted(M3U8_Get_Segment(This, msn)) ) =>
                /\ M3U8_Get_Segment(This', msn).endPTS
                     = M3U8_Get_Segment(This, msn).endPTS
                /\ getSegment(This', msn) = getSegment(This, msn) ]_vars

\* a sealed partial of several packets next to an open one that holds some
C8_Witness ==
  \E i \in InWindow :
    \E p \in 1..Len(M3U8_Segments[i].parts), q \in 1..Len(M3U8_Segments[i].parts) :
      /\ IsCompleted(M3U8_Segments[i].parts[p])
      /\ Len(M3U8_Segments[i].parts[p].completed) >= 3
      /\ ~IsCompleted(M3U8_Segments[i].parts[q])
      /\ Len(M3U8_Segments[i].parts[q].retains) >= 1

\* ------------------------------------------------------------------ C9
RECURSIVE SumUnits(_, _)
\* the sum of the durations of the partials from index p on, in units
SumUnits(parts, p) ==
  IF p > Len(parts) THEN 0
  ELSE GetUnits(parts[p]) + SumUnits(parts, p + 1)

RECURSIVE SumRounded(_, _)
\* the sum of those durations, each rounded to thousandths of a second
SumRounded(parts, p) ==
  IF p > Len(parts) THEN 0
  ELSE ToFixed3(GetUnits(parts[p])) + SumRounded(parts, p + 1)

\* the duration the playlist shows for a completed segment, in thousandths
EXTINF(msn) ==
  LET manifest == getManifest(This)
      at == CHOOSE k \in 1..Len(manifest) :
              /\ manifest[k].tag = "EXTINF"
              /\ manifest[k].msn = msn
  IN manifest[at].duration

Distance(a, b) == IF a < b THEN b - a ELSE a - b

CompletedInWindow == { i \in InWindow : IsCompleted(M3U8_Segments[i]) }

Callbacks == 1..Len(registered)

\* the number of invocations of a callback in a log of invocations
Count(log, cb) == Cardinality({ k \in 1..Len(log) : log[k].cb = cb })

Position(log, cb) == CHOOSE k \in 1..Len(log) : log[k].cb = cb

Listed(list, cb) == \E k \in 1..Len(list) : list[k] = cb

\* the callbacks that addPartialCallback stored on a partial then open
OnOpenPartial ==
  { cb \in Callbacks : registered[cb].op = "partial" /\ registered[cb].open }

TargetPartial(w, cb) ==
  M3U8_Get_Partial(w, registered[cb].msn, registered[cb].part)

SameTarget(a, b) ==
  /\ registered[a].op = registered[b].op
  /\ registered[a].msn = registered[b].msn
  /\ registered[a].part = registered[b].part

\* C3: a callback registered on an open, in-range partial is invoked
\* exactly once, in the step that seals the partial, after the callbacks
\* registered earlier on that partial and before those registered later,
\* and never again.
C3_PartialCallbackOnceAtSealing ==
  /\ [](\A cb \in OnOpenPartial :
          /\ Count(called, cb) <= 1
          /\ IF Missing(TargetPartial(This, cb))
             THEN Count(called, cb) = 1
             ELSE IF IsCompleted(TargetPartial(This, cb))
             THEN /\ Count(called, cb) = 1
                  /\ ~Listed(TargetPartial(This, cb).complete_callbacks, cb)
             ELSE /\ Count(called, cb) = 0
                  /\ Listed(TargetPartial(This, cb).complete_callbacks, cb)
          /\ \A later \in OnOpenPartial :
               ( /\ cb < later
                 /\ SameTarget(cb, later)
                 /\ Count(called, later) = 1 ) =>
                 /\ Count(called, cb) = 1
                 /\ Position(called, cb) < Position(called, later))
  /\ [][ \A cb \in OnOpenPartial :
           Count(called', cb) > Count(called, cb) =>
             /\ written' = written + 1
             /\ ~Missing(TargetPartial(This, cb))
             /\ ~IsCompleted(TargetPartial(This, cb))
             /\ \/ Missing(TargetPartial(This', cb))
                \/ IsCompleted(TargetPartial(This', cb)) ]_vars

\* two callbacks of one partial were invoked in their order when a part
\* cut sealed it, and the segment was sealed by a later packet
C3_Witness ==
  \E cb \in OnOpenPartial, later \in OnOpenPartial :
    /\ cb < later
    /\ SameTarget(cb, later)
    /\ Count(called, cb) = 1
    /\ Count(called, later) = 1
    /\ Position(called, cb) < Position(called, later)
    /\ ~Missing(M3U8_Get_Segment(This, registered[cb].msn))
    /\ Len(M3U8_Get_Segment(This, registered[cb].msn).parts) >= 2
    /\ IsCompleted(M3U8_Get_Segment(This, registered[cb].msn))

\* ------------------------------------------------------------------ C4
\* C4: when a callback registered on a segment is invoked, every partial of
\* the segment, the last one included, is already sealed.
C4_SegmentCallbackSeesSealedParts ==
  \A k \in 1..Len(called) :
    registered[called[k].cb].op = "segment" =>
      /\ called[k].fulfilled
      /\ called[k].parts_fulfilled

\* ------------------------------------------------------------------ C5
\* C5: a callback that add*Callback accepted (returned true) is invoked
\* exactly once, whether its target was open or sealed when it was
\* registered.  Once the target has left the window no later packet can
\* invoke the callback, so by then it has been invoked.
C5_AcceptedCallbackIsInvoked ==
  \A cb \in Callbacks :
    /\ Count(called, cb) <= 1
    /\ registered[cb].msn < M3U8_Begin_Sequence_Number =>
         Count(called, cb) = 1

\* ----------------------------------------------------------------- C10
PartArguments == (0 - 1)..MaxPackets

OutOfRangeSegment(msn) ==
  \/ msn < M3U8_Begin_Sequence_Number
  \/ msn >= M3U8_End_Sequence_Number

OutOfRangePartial(msn, part) ==
  \/ OutOfRangeSegment(msn)
  \/ part < 0
  \/ part >= Len(M3U8_Segments[msn - M3U8_Begin_Sequence_Number + 1].parts)

Refused == [returned |-> FALSE, Segments |-> M3U8_Segments]

\* C10: on an out-of-range target no query faults or changes anything:
\* inRange is false, isFulfilled is true, the fetch is empty and
\* add*Callback returns false and stores nothing; on a target in range
\* isFulfilled is true iff it is sealed and the fetch is empty iff it is not.
C10_QueriesOutOfRange ==
  /\ ~threw
  /\ \A msn \in MSNs :
       IF OutOfRangeSegment(msn)
       THEN /\ inRangeSegment(This, msn) = FALSE
            /\ isFulfilledSegment(This, msn) = Returns(TRUE)
            /\ getSegment(This, msn) = Returns(<<>>)
            /\ SegmentCallbackCall(This, msn, NextCallback) = Refused
       ELSE LET segment == M3U8_Segments[msn - M3U8_Begin_Sequence_Number + 1]
            IN /\ inRangeSegment(This, msn) = TRUE
               /\ isFulfilledSegment(This, msn) = Returns(IsCompleted(segment))
               /\ ~getSegment(This, msn).threw
               /\ getSegment(This, msn).value = <<>> <=> ~IsCompleted(segment)
  /\ \A msn \in MSNs, part \in PartArguments :
       IF OutOfRangePartial(msn, part)
       THEN /\ inRangePartial(This, msn, part) = Returns(FALSE)
            /\ isFulfilledPartial(This, msn, part) = Returns(TRUE)
            /\ getPartial(This, msn, part) = Returns(<<>>)
            /\ PartialCallbackCall(This, msn, part, NextCallback) = Refused
       ELSE LET partial ==
                  M3U8_Segments[msn - M3U8_Begin_Sequence_Number + 1]
                    .parts[part + 1]
            IN /\ inRangePartial(This, msn, part) = Returns(TRUE)
               /\ isFulfilledPartial(This, msn, part)
                    = Returns(IsCompleted(partial))
               /\ ~getPartial(This, msn, part).threw
               /\ getPartial(This, msn, part).value = <<>>
                    <=> ~IsCompleted(partial)

\* a window that has lost a segment and holds a sealed one, with its
\* callbacks, next to the open one
C10_Witness ==
  /\ M3U8_Begin_Sequence_Number >= 1
  /\ Len(M3U8_Segments) = 2
  /\ IsCompleted(M3U8_Segments[1])
  /\ ~IsCompleted(M3U8_Segments[2])
  /\ registered # <<>>

\* ----------------------------------------------------------------- C11
\* the number of lines of a playlist that have this tag and this URI
LinesWith(manifest, tag, uri) ==
  Cardinality({ k \in 1..Len(manifest) :
                  /\ manifest[k].tag = tag
                  /\ manifest[k].uri.path = uri.path
                  /\ manifest[k].uri.msn = uri.msn
                  /\ uri.path = "part" => manifest[k].uri.part = uri.part })

ExtinfLines(manifest, msn) ==
  Cardinality({ k \in 1..Len(manifest) :
                  /\ manifest[k].tag = "EXTINF"
                  /\ manifest[k].msn = msn })

OneIf(condition) == IF condition THEN 1 ELSE 0

\* the lines that carry a URI
Addressed(manifest) ==
  { k \in 1..Len(manifest) :
      manifest[k].tag \in {"URI", "EXT-X-PART", "EXT-X-PRELOAD-HINT"} }

\* C11: in the rendered playlist, for each MSN in range, the EXTINF line
\* and the segment fetch line appear iff the segment is sealed; each
\* partial has a preload hint iff it is open and an EXT-X-PART line iff it
\* is sealed; nothing is listed for an MSN out of range.
C11_PlaylistLinesFollowSealing ==
  LET manifest == getManifest(This)
  IN /\ \A i \in InWindow :
          LET msn == M3U8_Begin_Sequence_Number + i - 1
              segment == M3U8_Segments[i]
          IN /\ ExtinfLines(manifest, msn) = OneIf(IsCompleted(segment))
             /\ LinesWith(manifest, "URI", SegmentURI(msn))
                  = OneIf(IsCompleted(segment))
             /\ \A p \in 1..Len(segment.parts) :
                  /\ LinesWith(manifest, "EXT-X-PRELOAD-HINT",
                               PartURI(msn, "any", p - 1))
                       = OneIf(~IsCompleted(segment.parts[p]))
                  /\ LinesWith(manifest, "EXT-X-PART",
                               PartURI(msn, "any", p - 1))
                       = OneIf(IsCompleted(segment.parts[p]))
     /\ \A k \in Addressed(manifest) :
          /\ inRangeSegment(This, manifest[k].uri.msn)
          /\ manifest[k].uri.path = "part" =>
               ~Missing(M3U8_Get_Partial(This, manifest[k].uri.msn,
                                         manifest[k].uri.part))

\* a sealed segment of two partials is listed ahead of the open segment
C11_Witness ==
  /\ Len(M3U8_Segments) = 2
  /\ IsCompleted(M3U8_Segments[1])
  /\ Len(M3U8_Segments[1].parts) = 2
  /\ ~IsCompleted(M3U8_Segments[2])
  /\ Len(getManifest(This)) = 6 + 5 + 2

\* ----------------------------------------------------------------- C12
\* C12: the URI of the preload hint of an open partial p of segment n is
\* part?msn=<n>&part=<p>, the URI the EXT-X-PART line has once it is sealed.
C12_HintURIIsPartURI ==
  LET manifest == getManifest(This)
  IN \A k \in 1..Len(manifest) :
       manifest[k].tag = "EXT-X-PRELOAD-HINT" =>
         manifest[k].uri
           = PartURI(manifest[k].uri.msn, "part", manifest[k].uri.part)

\* ----------------------------------------------------------------- C13
\* C13: getManifest, inRangeSegment, inRangePartial, isFulfilledSegment,
\* isFulfilledPartial, getSegment and getPartial change neither the window,
\* the MSNs, the buffers, the callbacks nor the demux state, so a read
\* repeated with no write in between returns what it returned before; in
\* particular a second rendering of the playlist is the same text.
C13_ReadsArePure ==
  /\ [][ observed' # NoRead =>
           UNCHANGED << demuxVars, windowVars, threw, written, created,
                        called, registered, evicted, dropped >> ]_vars
  /\ [](observed # NoRead =>
          observed.result
            = ReadResult(This, observed.op, observed.msn, observed.part))
  /\ [][ ( /\ observed # NoRead
           /\ observed' # NoRead
           /\ observed'.op = observed.op
           /\ observed'.msn = observed.msn
           /\ observed'.part = observed.part ) =>
           observed'.result = observed.result ]_vars

\* a playlist was rendered that lists a sealed segment ahead of an open one
C13_Witness ==
  /\ observed # NoRead
  /\ observed.op = "getManifest"
  /\ Len(M3U8_Segments) = 2
  /\ IsCompleted(M3U8_Segments[1])
  /\ Len(M3U8_Segments[2].retains) >= 3
  /\ Len(observed.result) >= 6 + 4 + 2

\* ----------------------------------------------------------------- C14
\* the buffers getPartial returns for index 0..length-1 of the segment at
\* position i of the window, concatenated in order
RECURSIVE PartialsOf(_, _, _)
PartialsOf(i, p, length) ==
  IF p >= length THEN <<>>
  ELSE getPartial(This, M3U8_Begin_Sequence_Number + i - 1, p).value
       \o PartialsOf(i, p + 1, length)

\* between two writes, the buffer of every sealed segment of the window is
\* the concatenation of the buffers of its partials
ConcatenatedBetweenWrites ==
  \A i \in CompletedInWindow :
    getSegment(This, M3U8_Begin_Sequence_Number + i - 1).value
      = PartialsOf(i, 0, Len(M3U8_Segments[i].parts))

\* C14: whenever a segment is sealed, between two writes or when its
\* completion is announced to its callbacks, its buffer (getSegment) equals
\* the ordered concatenation of the buffers of its partials (getPartial for
\* index 0..length-1).
C14_SealedBufferIsConcatenation ==
  /\ ConcatenatedBetweenWrites
  /\ \A k \in 1..Len(called) :
       called[k].fulfilled => called[k].concatenated

\* ----------------------------------------------------------------- C15
\* the newest segment of a window and its last partial
Newest(w) == w.Segments[Len(w.Segments)]

LastPartial(segment) == segment.parts[Len(segment.parts)]

\* 0.85 * partTarget < elapsed <= partTarget, for elapsed in units
WithinPartTarget(elapsed) ==
  /\ elapsed <= M3U8_Part_Target * PTS_PER_SECOND
  /\ 100 * elapsed > 85 * M3U8_Part_Target * PTS_PER_SECOND

\* what a step appended to the newest segment, when it made no new segment
AppendedByStep ==
  SubSeq(Newest(This').appended, Len(Newest(This).appended) + 1,
         Len(Newest(This').appended))

\* a step that processes a non-IDR access unit while Live, the window
\* holding a segment: it appends the packets of the access unit, the last
\* of which completes a PES without IDR
NonIDRAccessUnit ==
  /\ M3U8_Initial_IDR_Detected
  /\ M3U8_Segments # <<>>
  /\ written' = written + 1
  /\ created' = created
  /\ M3U8_Segments' # <<>>
  /\ AppendedByStep # <<>>
  /\ AppendedByStep[Len(AppendedByStep)].origin = "input"
  /\ AppendedByStep[Len(AppendedByStep)].pid = PMT_VideoPid
  /\ AppendedByStep[Len(AppendedByStep)].pes.complete
  /\ ~AppendedByStep[Len(AppendedByStep)].pes.hasIDR

\* C15: on a non-IDR access unit at PTS p while Live, the open partial is
\* cut iff 0.85 * partTarget < elapsed <= partTarget, elapsed being the
\* wraparound-safe time from its begin PTS to p; the cut seals it with end
\* PTS p and opens a partial with begin PTS p in the same segment, begin-MSN,
\* end-MSN and the number of segments stay, and the packets of the access
\* unit go to the new partial.  Every partial sealed by a cut lasts more
\* than 0.85 part targets and at most one.
C15_PartCut ==
  /\ [](\A i \in InWindow :
          \A q \in 1..(Len(M3U8_Segments[i].parts) - 1) :
            /\ IsCompleted(M3U8_Segments[i].parts[q])
            /\ WithinPartTarget(GetUnits(M3U8_Segments[i].parts[q])))
  /\ [][ NonIDRAccessUnit =>
           LET p == AppendedByStep[Len(AppendedByStep)].pes.pts
               n == Len(Newest(This).parts)
               open == LastPartial(Newest(This))
               elapsed == (p - open.beginPTS + PTS_CYCLE) % PTS_CYCLE
               parts == Newest(This').parts
           IN /\ ~IsCompleted(open)
              /\ M3U8_Begin_Sequence_Number' = M3U8_Begin_Sequence_Number
              /\ M3U8_End_Sequence_Number' = M3U8_End_Sequence_Number
              /\ Len(M3U8_Segments') = Len(M3U8_Segments)
              /\ ~IsCompleted(Newest(This'))
              /\ AppendedByStep
                   = Append(Video_Packets,
                            AppendedByStep[Len(AppendedByStep)])
              /\ IF WithinPartTarget(elapsed)
                 THEN /\ Len(parts) = n + 1
                      /\ parts[n].endPTS = p
                      /\ parts[n].beginPTS = open.beginPTS
                      /\ GetBuffer(parts[n]) = open.appended
                      /\ parts[n + 1].beginPTS = p
                      /\ ~IsCompleted(parts[n + 1])
                      /\ parts[n + 1].appended = AppendedByStep
                 ELSE /\ Len(parts) = n
                      /\ ~IsCompleted(parts[n])
                      /\ parts[n].beginPTS = open.beginPTS
                      /\ parts[n].appended = open.appended \o AppendedByStep
         ]_vars

\* a partial was cut at exactly one part target and the access unit of two
\* packets that cut it is in the partial opened by the cut
C15_Witness ==
  \E i \in InWindow :
    /\ Len(M3U8_Segments[i].parts) = 2
    /\ GetUnits(M3U8_Segments[i].parts[1])
         = M3U8_Part_Target * PTS_PER_SECOND
    /\ Len(M3U8_Segments[i].parts[2].appended) = 2
    /\ ~IsCompleted(M3U8_Segments[i].parts[2])

\* ----------------------------------------------------------------- C16
\* C16: in every state first IDR seen implies PMT seen implies PAT seen,
\* a state that has seen the PAT (the PMT) holds a cached PAT (PMT)
\* section, so Live implies both are cached; and no step clears any of the
\* three flags.
C16_ReadinessIsLinear ==
  /\ [](/\ M3U8_Initial_IDR_Detected => M3U8_Initial_PMT_Detected
        /\ M3U8_Initial_PMT_Detected => M3U8_Initial_PAT_Detected
        /\ M3U8_Initial_PAT_Detected => PAT_lastPAT # NoSection
        /\ M3U8_Initial_PMT_Detected => PMT_lastPMT # NoSection
        /\ M3U8_Initial_IDR_Detected =>
             PAT_lastPAT # NoSection /\ PMT_lastPMT # NoSection)
  /\ [][ /\ M3U8_Initial_PAT_Detected => M3U8_Initial_PAT_Detected'
         /\ M3U8_Initial_PMT_Detected => M3U8_Initial_PMT_Detected'
         /\ M3U8_Initial_IDR_Detected => M3U8_Initial_IDR_Detected' ]_vars

\* the stream is Live and a later PAT has left no PMT PID bound
C16_Witness ==
  /\ M3U8_Initial_IDR_Detected
  /\ M3U8_Initial_PMT_Detected
  /\ M3U8_Initial_PAT_Detected
  /\ PAT_TargetPMTPid = NoPid
  /\ PAT_lastPAT = PAT_NoProgram

\* ----------------------------------------------------------------- C17
\* the open partials of the window, as pairs of positions
OpenPartials ==
  { << i, q >> \in InWindow \X (1..MaxPackets) :
      /\ q <= Len(M3U8_Segments[i].parts)
      /\ ~IsCompleted(M3U8_Segments[i].parts[q]) }

PreloadHints ==
  LET manifest == getManifest(This)
  IN { k \in 1..Len(manifest) : manifest[k].tag = "EXT-X-PRELOAD-HINT" }

\* the window after the first two blocks of M3U8_New_Segment, at the point
\* where the third block decides whether to drop the oldest segment
BeforeEviction(pts) == PushSegment(CompleteLastSegment(This, pts), pts)

\* C17: between two writes a non-empty window has exactly one open partial,
\* the last partial of the newest segment; the newest segment is the only
\* segment that is not sealed; every other segment and every partial that
\* is not the last of its segment is sealed.  So the playlist has at most
\* one preload hint and, for a window length of 1 or more, a segment that
\* M3U8_New_Segment drops is sealed, with all its partials, when dropped.
C17_OneOpenPartial ==
  /\ M3U8_Segments # <<>> =>
       /\ OpenPartials
            = { << Len(M3U8_Segments), Len(Newest(This).parts) >> }
       /\ { i \in InWindow : ~IsCompleted(M3U8_Segments[i]) }
            = { Len(M3U8_Segments) }
       /\ \A i \in InWindow : Len(M3U8_Segments[i].parts) <= MaxPackets
  /\ Cardinality(PreloadHints) = OneIf(M3U8_Segments # <<>>)
  /\ M3U8_Segments_Length >= 1 =>
       \A pts \in PTSValues \cup CutPTSValues :
         EvictSegment(BeforeEviction(pts)) # BeforeEviction(pts) =>
           /\ IsCompleted(BeforeEviction(pts).Segments[1])
           /\ \A q \in 1..Len(BeforeEviction(pts).Segments[1].parts) :
                IsCompleted(BeforeEviction(pts).Segments[1].parts[q])

\* a segment was dropped from a window of length 1 and the segment now in
\* it has a sealed partial ahead of its open one
C17_Witness ==
  /\ evicted # {}
  /\ M3U8_Segments_Length = 1
  /\ Len(M3U8_Segments) = 1
  /\ Len(M3U8_Segments[1].parts) = 2
  /\ IsCompleted(M3U8_Segments[1].parts[1])
  /\ Cardinality(PreloadHints) = 1

\* ----------------------------------------------------------------- C18
\* C18: in the window, the first partial of a segment begins at the begin
\* PTS of the segment and every other partial begins at the end PTS of the
\* partial before it; a segment begins at the end PTS of the segment before
\* it, which is also the end PTS of that segment's last partial.
C18_TimelineIsContiguous ==
  \A i \in InWindow :
    LET segment == M3U8_Segments[i]
    IN /\ segment.parts # <<>>
       /\ segment.parts[1].beginPTS = segment.beginPTS
       /\ \A q \in 2..Len(segment.parts) :
            /\ IsCompleted(segment.parts[q - 1])
            /\ segment.parts[q].beginPTS = segment.parts[q - 1].endPTS
       /\ i > 1 =>
            /\ IsCompleted(M3U8_Segments[i - 1])
            /\ segment.beginPTS = M3U8_Segments[i - 1].endPTS
            /\ segment.beginPTS = LastPartial(M3U8_Segments[i - 1]).endPTS

\* a segment of two partials is followed by a segment that begins where it
\* ended, away from PTS 0
C18_Witness ==
  /\ Len(M3U8_Segments) = 2
  /\ Len(M3U8_Segments[1].parts) = 2
  /\ M3U8_Segments[1].parts[2].beginPTS # 0
  /\ M3U8_Segments[2].beginPTS # 0
  /\ M3U8_Segments[2].beginPTS # M3U8_Segments[1].parts[2].beginPTS

\* ----------------------------------------------------------------- C19
RECURSIVE ConcatAppended(_, _)
\* the packets handed to the partials from p on, partial after partial
ConcatAppended(parts, p) ==
  IF p > Len(parts) THEN <<>>
  ELSE parts[p].appended \o ConcatAppended(parts, p + 1)

\* where M3U8_Add_Packet puts a packet handed to it in this state
Landed(packet) == Newest(M3U8_Add_Packet(This, packet))

\* C19: with a window length of 1 or more, once Live the window is never
\* empty and M3U8_Add_Packet never returns without appending: a packet handed
\* to it (video, PCR, other PID, re-emitted PAT or PMT) becomes the last
\* packet of the newest segment and of that segment's last partial, which
\* is open; no step appends to another segment.
C19_NoDropOnceLive ==
  /\ [](M3U8_Segments_Length >= 1 =>
          /\ ~dropped
          /\ M3U8_Initial_IDR_Detected =>
               /\ M3U8_End_Sequence_Number - M3U8_Begin_Sequence_Number >= 1
               /\ M3U8_Segments # <<>>
               /\ ~IsCompleted(LastPartial(Newest(This)))
               /\ \A i \in InWindow :
                    M3U8_Segments[i].appended
                      = ConcatAppended(M3U8_Segments[i].parts, 1)
               /\ \A packet \in InputPackets \cup CutInputs :
                    /\ ~M3U8_Add_Packet(This, packet).dropped
                    /\ Landed(packet).appended
                         = Append(Newest(This).appended, packet)
                    /\ LastPartial(Landed(packet)).appended
                         = Append(LastPartial(Newest(This)).appended, packet))
  /\ [][ M3U8_Segments_Length >= 1 =>
           \A msn \in MSNs :
             ( /\ inRangeSegment(This, msn)
               /\ inRangeSegment(This', msn)
               /\ msn # M3U8_End_Sequence_Number' - 1 ) =>
               M3U8_Get_Segment(This', msn).appended
                 = M3U8_Get_Segment(This, msn).appended ]_vars

\* the newest segment holds, after its video packet, a PAT emitted again
\* and a packet of the PCR PID
C19_Witness ==
  /\ M3U8_Segments_Length >= 1
  /\ M3U8_Initial_IDR_Detected
  /\ M3U8_Segments # <<>>
  /\ \E a \in 3..MaxPackets, b \in 3..MaxPackets :
       /\ a <= Len(Newest(This).appended)
       /\ b <= Len(Newest(This).appended)
       /\ IsPacketized(Newest(This).appended[a], "PAT")
       /\ Newest(This).appended[b].origin = "input"
       /\ Newest(This).appended[b].pid = PMT_PCRPid

\* ----------------------------------------------------------------- C20
\* the EXT-X-TARGETDURATION value of the playlist, in seconds
TARGETDURATION ==
  LET manifest == getManifest(This)
      at == CHOOSE k \in 1..Len(manifest) :
              manifest[k].tag = "EXT-X-TARGETDURATION"
  IN manifest[at].value

\* C20 as stated: every EXTINF of the playlist is at most the
\* EXT-X-TARGETDURATION of the playlist, for any sequence of PTS values.
C20_ExtinfWithinTargetDuration ==
  \A i \in CompletedInWindow :
    EXTINF(M3U8_Begin_Sequence_Number + i - 1) <= 1000 * TARGETDURATION

\* C20 as amended: EXT-X-TARGETDURATION is the least whole number of
\* seconds, 1 or more, that no sealed segment of the window outlasts; the
\* EXTINF of a sealed segment of n partials whose partial durations sum to
\* less than 2^33 ticks exceeds it by at most n / 2 thousandths of a second.
C20_ExtinfNearTargetDuration ==
  /\ TARGETDURATION >= 1
  /\ \A i \in CompletedInWindow :
       GetUnits(M3U8_Segments[i]) <= TARGETDURATION * PTS_PER_SECOND
  /\ \/ TARGETDURATION = 1
     \/ \E i \in CompletedInWindow :
          GetUnits(M3U8_Segments[i]) > (TARGETDURATION - 1) * PTS_PER_SECOND
  /\ \A i \in CompletedInWindow :
       SumUnits(M3U8_Segments[i].parts, 1) < PTS_CYCLE =>
         2 * (EXTINF(M3U8_Begin_Sequence_Number + i - 1)
                - 1000 * TARGETDURATION)
           <= Len(M3U8_Segments[i].parts)

\* the playlist lists a sealed segment of more than a second, whose partial
\* durations sum to less than 2^33 ticks
C20_Witness ==
  \E i \in CompletedInWindow :
    /\ GetUnits(M3U8_Segments[i]) > PTS_PER_SECOND
    /\ SumUnits(M3U8_Segments[i].parts, 1) < PTS_CYCLE
    /\ TARGETDURATION > 1
    /\ EXTINF(M3U8_Begin_Sequence_Number + i - 1) > 1000

====
